---- MODULE Spec2Model ----
(***************************************************************************)
(* Model of single_tuner_gain_changes.c and single_tuner_recorder.c: the   *)
(* option parsers, the device set-up, readback verification and tear-down  *)
(* sequence of main(), the gain-change loop with its bounded poll loop,    *)
(* rx_callback running on the device layer's streaming thread, and the     *)
(* recorder's sample callbacks with the output file.                       *)
(***************************************************************************)
EXTENDS Integers, Sequences, FiniteSets, TLC

\* ------------------------------------------------------------------ bounds

\* Poll-loop iteration bound.  The source sets it to 10000 (line 24); the
\* model scales it down, the loop's guard and exit tests are unchanged.
UpdateTimeout == 3

\* Largest value of the -n option (num_gain_changes) the model draws.
MaxChanges == 4

\* Longest -l option text drawn from the alphabet (the -g texts are listed).
MaxArgLen == 2

\* ----------------------------------------------------- program constants

\* default_gRdBs[] = { 40 } and default_LNAstates[] = { 0 }
DefaultGRdB == 40
DefaultLNAstate == 0

\* ------------------------------------------------------- option strings

\* An option text is a sequence of one-character strings; position
\* Len(s)+1 stands for the terminating NUL.
IsDigit(c) == c \in {"0", "1", "2", "3", "4", "5", "6", "7", "8", "9"}

IsSpace(c) == c = " "

DigitVal(c) ==
  CASE c = "0" -> 0 [] c = "1" -> 1 [] c = "2" -> 2 [] c = "3" -> 3
    [] c = "4" -> 4 [] c = "5" -> 5 [] c = "6" -> 6 [] c = "7" -> 7
    [] c = "8" -> 8 [] c = "9" -> 9

\* First position at or after i that holds no white space.
RECURSIVE SkipSpaces(_, _)
SkipSpaces(s, i) ==
  IF i <= Len(s) /\ IsSpace(s[i]) THEN SkipSpaces(s, i + 1) ELSE i

\* First position at or after i that holds no digit.
RECURSIVE DigitsEnd(_, _)
DigitsEnd(s, i) ==
  IF i <= Len(s) /\ IsDigit(s[i]) THEN DigitsEnd(s, i + 1) ELSE i

\* Decimal value of the digits s[i..j-1], most significant first.
RECURSIVE DecimalValue(_, _, _, _)
DecimalValue(s, i, j, acc) ==
  IF i >= j THEN acc ELSE DecimalValue(s, i + 1, j, 10 * acc + DigitVal(s[i]))

\* sscanf(p, "%d%n", &v, &consumed) on the text that starts at position p:
\* white space is skipped, an optional sign is read, then at least one digit.
\* ok is "the call returned 1"; consumed counts every character read.
ScanInt(s, p) ==
  LET a == SkipSpaces(s, p)
      signed == a <= Len(s) /\ s[a] \in {"-", "+"}
      b == IF signed THEN a + 1 ELSE a
      e == DigitsEnd(s, b)
      mag == DecimalValue(s, b, e, 0)
  IN  IF e = b
        THEN [ok |-> FALSE, value |-> 0, consumed |-> 0]
        ELSE [ok |-> TRUE,
              value |-> IF signed /\ s[a] = "-" THEN 0 - mag ELSE mag,
              consumed |-> e - p]

\* for (n = 1, p = optarg; *p; p++) if (*p == ',') n++;
RECURSIVE CountItems(_, _, _)
CountItems(s, p, n) ==
  IF p > Len(s) THEN n
  ELSE CountItems(s, p + 1, IF s[p] = "," THEN n + 1 ELSE n)

Rejected == [ok |-> FALSE, wild |-> FALSE, size |-> 0, items |-> << >>]

\* Mutant of ListAfterLoop: the test for unfilled elements is missing.
ListAfterLoopUnchecked(size, items) ==
  [ok |-> TRUE, wild |-> FALSE, size |-> size, items |-> items]

\* if (n < ngRdBs) { ...; exit(1); } break;
ListAfterLoop(size, items) ==
  IF Len(items) < size THEN Rejected
  ELSE [ok |-> TRUE, wild |-> FALSE, size |-> size, items |-> items]

\* for (n = 0, p = optarg; *p && n < size; n++, p += consumed+1) sscanf(...)
\* items holds the elements filled so far (n = Len(items)).  After a number
\* that ends the text, p += consumed+1 steps over the NUL: *p is then a byte
\* outside the option text, zero or not, and both outcomes are kept.  A scan
\* of such memory is the outcome "wild".
RECURSIVE ListLoop(_, _, _, _)
ListLoop(s, p, size, items) ==
  IF p > Len(s) + 1
    THEN {ListAfterLoop(size, items)}
         \cup (IF Len(items) < size
                 THEN {[ok |-> TRUE, wild |-> TRUE, size |-> size, items |-> items]}
                 ELSE {ListAfterLoop(size, items)})
  ELSE IF p = Len(s) + 1 \/ ~(Len(items) < size)
    THEN {ListAfterLoop(size, items)}
  ELSE LET r == ScanInt(s, p)
       IN  IF ~r.ok THEN {Rejected}
           ELSE ListLoop(s, p + r.consumed + 1, size, Append(items, r.value))

\* case 'g' / case 'l': the outcomes of parsing one list option.
ParseList(s) == ListLoop(s, 1, CountItems(s, 1, 1), << >>)

\* ---------------------------------------------------------------- inputs

\* The -g texts the model draws: two and three items, an empty text, a
\* trailing and a leading comma, and a number followed by other characters
\* (read as one item).
GainTexts ==
  { <<"4", ",", "2">>, <<"4", ",", "2", ",", "6">>,
    << >>, <<"4", ",">>, <<",", "4">>, <<"4", "x", "2">> }

\* The -l texts the model draws: every text over this alphabet up to
\* MaxArgLen characters, and the lists of two and three items.
LnaAlphabet == {"1", ","}

RECURSIVE TextsUpTo(_, _)
TextsUpTo(alphabet, n) ==
  IF n = 0 THEN { << >> }
  ELSE LET shorter == TextsUpTo(alphabet, n - 1)
       IN  shorter \cup { Append(t, c) : t \in shorter, c \in alphabet }

LnaTexts ==
  TextsUpTo(LnaAlphabet, MaxArgLen)
    \cup { <<"0", ",", "1">>, <<"0", ",", "1", ",", "2">> }

NotGiven == [given |-> FALSE, text |-> << >>]

Options(texts) == {NotGiven} \cup { [given |-> TRUE, text |-> t] : t \in texts }

\* What an element read outside the filled part of a malloc'ed array may hold.
Garbage == {-7, 99}

\* gRdBs[i] / LNAstates[i] for a 0-based i: the element when the parser
\* filled it, any value otherwise.
ReadElem(items, i) ==
  IF i < Len(items) THEN {items[i + 1]} ELSE Garbage

\* --------------------------------------------------------------- bit-wise or

RECURSIVE BitOr(_, _)
BitOr(a, b) ==
  IF a = 0 THEN b
  ELSE IF b = 0 THEN a
  ELSE (IF a % 2 = 1 \/ b % 2 = 1 THEN 1 ELSE 0) + 2 * BitOr(a \div 2, b \div 2)

\* params->grChanged as the device layer delivers it.
GrValues == {0, 1}

\* ---------------------------------------------------------------- devices

\* A device as sdrplay_api_GetDevices describes it.  rspDuoMode is a bit
\* mask, held as the set of the modes whose bit is set (Unknown is no bit).
Rsp1a ==
  [hwVer |-> "RSP1A", rspDuoMode |-> {}, tuner |-> "Tuner_A",
   rspDuoSampleFreq |-> 0]

\* An RSPduo that offers every mode, enumerated with both tuners.
RspDuoFree ==
  [hwVer |-> "RSPduo", rspDuoMode |-> {"Single_Tuner", "Dual_Tuner", "Master"},
   tuner |-> "Tuner_Both", rspDuoSampleFreq |-> 6]

\* An RSPduo whose other tuner is in use as master: slave mode only.
RspDuoSlaveOnly ==
  [hwVer |-> "RSPduo", rspDuoMode |-> {"Slave"}, tuner |-> "Tuner_B",
   rspDuoSampleFreq |-> 6]

\* No device with the wanted serial number (device_index stays -1).
NoDevice ==
  [hwVer |-> "none", rspDuoMode |-> {}, tuner |-> "Tuner_Neither",
   rspDuoSampleFreq |-> 0]

Devices == {Rsp1a, RspDuoFree, RspDuoSlaveOnly, NoDevice}

\* (device.rspDuoMode & sdrplay_api_RspDuoMode_Single_Tuner)
\*    != sdrplay_api_RspDuoMode_Single_Tuner
SingleTunerMissing(d) == "Single_Tuner" \notin d.rspDuoMode

\* Mutant of ForceSingleTuner: the descriptor is selected as enumerated.
ForceSingleTunerForgotten(d) == d

\* Lines 249-251: the descriptor is forced to single tuner mode on tuner A.
ForceSingleTuner(d) ==
  [d EXCEPT !.rspDuoMode = {"Single_Tuner"}, !.tuner = "Tuner_A",
            !.rspDuoSampleFreq = 0]

\* SDRPLAY_API_VERSION of the header the program was built with, and a
\* version of another release of the vendor library.
ExpectedVersion == "SDRPLAY_API_VERSION"

ApiVersions == {ExpectedVersion, "other"}

\* Mutant of VersionOk: the version is not compared.
VersionOkAny(v) == TRUE

\* Line 200 (recorder, line 177): ver != SDRPLAY_API_VERSION is false.
VersionOk(v) == v = ExpectedVersion

\* ------------------------------------------------------ device parameters

\* The fields of the device parameters main() writes besides the gain
\* reduction and the LNA state (lines 291-305; recorder, lines 268-284).
ParamFields ==
  { "fsHz", "decimation.enable", "decimationFactor", "ifType", "bwType",
    "agc.enable", "DCenable", "IQenable", "dcCal", "speedUp", "trackTime",
    "refreshRateTime", "rfHz" }

GainFields == {"gRdB", "LNAstate"}

\* The value main() writes into a field: the defaults of the options the
\* model does not vary (gain changes, lines 45-61; recorder, lines 53-66).
Requested(program, agcMode) ==
  [f \in ParamFields |->
     CASE f = "fsHz" -> (IF program = "recorder" THEN 0 ELSE 2000000)
       [] f = "decimation.enable" -> 0
       [] f = "decimationFactor" -> 1
       [] f = "ifType" -> 0
       [] f = "bwType" -> 200
       [] f = "agc.enable" -> agcMode
       [] f = "DCenable" -> 1
       [] f = "IQenable" -> 1
       [] f = "dcCal" -> 3
       [] f = "speedUp" -> 0
       [] f = "trackTime" -> 1
       [] f = "refreshRateTime" -> 2048
       [] f = "rfHz" -> 100000000]

\* The parameters as sdrplay_api_GetDeviceParams hands them out.
DeviceDefaults ==
  [f \in ParamFields |-> IF f = "agc.enable" THEN "AGC_50HZ" ELSE 0]

\* What a device that does not take a value leaves in the field instead.
Clamped(f, v) ==
  IF f = "agc.enable"
    THEN (IF v = "AGC_DISABLE" THEN "AGC_50HZ" ELSE "AGC_DISABLE")
    ELSE v + 1

\* The fields the readback compares with the value written: lines 342-397
\* of the gain changes utility, which has no test of agc.enable, and lines
\* 314-374 of the recorder, which tests gRdB only with the AGC disabled.
ComparedFields(program, agcMode) ==
  IF program = "recorder"
    THEN ParamFields \cup
           (IF agcMode = "AGC_DISABLE" THEN GainFields ELSE {"LNAstate"})
    ELSE (ParamFields \ {"agc.enable"}) \cup GainFields

\* The fields main() writes before the no-callback initialization.
WrittenFields(program, agcMode) ==
  IF program = "recorder" /\ agcMode # "AGC_DISABLE"
    THEN ParamFields \cup {"LNAstate"}
    ELSE ParamFields \cup GainFields

\* What the device layer does to the written parameters during the
\* no-callback initialization: nothing, or one field is changed.
Clamps == {"none"} \cup ParamFields \cup GainFields

\* ---------------------------------------------------------- sample numbers

\* An unsigned int is held as its two 16-bit halves << high, low >>.
Half == 65536

\* 0xffffffff, the initial next_sample_num.
NoSampleNum == << Half - 1, Half - 1 >>

\* a + n in unsigned int arithmetic, for a count n below Half.
Add32(a, n) ==
  LET low == a[2] + n
  IN  << (a[1] + low \div Half) % Half, low % Half >>

\* A buffer as the device layer hands it to the sample callback:
\* params->firstSampleNum, numSamples, and the samples xi[], xq[].
Buffer(first, xi, xq) ==
  [firstSampleNum |-> first, numSamples |-> Len(xi), xi |-> xi, xq |-> xq]

\* A feed of empty buffers, all at sample number 0.
QuietFeed == { Buffer(<<0, 0>>, << >>, << >>) }

\* A feed of empty buffers at two sample numbers: a buffer that does not
\* start where the one before it ended is a jump in the sequence.
JumpyFeed == { Buffer(<<0, 0>>, << >>, << >>), Buffer(<<0, 1>>, << >>, << >>) }

\* Largest total of samples the model lets a stream deliver.
MaxSamples == 3

\* short samples[4096] of rx_callback_record (line 577).
SamplesLen == 4096

\* sizeof(short)
SizeofShort == 2

\* n samples of value 0.
Zeros(n) == [i \in 1..n |-> 0]

\* The sample counts of the large buffers: the largest whose interleaved
\* samples fill samples[], and one more.
BigCounts == { SamplesLen \div 2, SamplesLen \div 2 + 1 }

\* A feed of large buffers.
BigFeed == { Buffer(<<0, 0>>, Zeros(n), Zeros(n)) : n \in BigCounts }

\* The total of samples a stream over this feed delivers at most: one of
\* the large buffers, or MaxSamples samples of the small ones.
StreamLimit(buffers) ==
  IF buffers = BigFeed THEN SamplesLen \div 2 + 1 ELSE MaxSamples

\* Buffers of one and two samples at sample numbers around the wrap, with
\* sample values on both sides of 0.
FirstSampleNums ==
  { <<0, 0>>, <<0, 1>>, << Half - 1, Half - 3 >>, << Half - 1, Half - 2 >>,
    NoSampleNum }

SampleRuns == { <<5>>, <<-3, 7>> }

RichFeed ==
  { Buffer(first, xi, [i \in DOMAIN xi |-> 0 - xi[i]]) :
      first \in FirstSampleNums, xi \in SampleRuns }

\* ------------------------------------------------------------------ state

VARIABLES
  pc,                \* position of main()
  exit_status,       \* -1 while the process runs, then the exit status
  gOpt, lOpt,        \* the -g and -l options of the command line
  num_gain_changes,  \* the -n option
  gRdBs, ngRdBs,     \* filled elements of gRdBs[], and its allocated size
  LNAstates, nLNAstates,
  ngc,               \* loop counter of the gain-change loop
  gRdB, LNAstate,    \* rx_channel_params->tunerParams.gain
  gain_reduction_changed,       \* rx_context.gain_reduction_changed
  elapsed,
  prev_gain_reduction_changed,
  streaming,         \* callbacks installed by sdrplay_api_Init and running
  pendingGr,         \* updates whose grChanged notification is undelivered
  cb_pc,             \* position of rx_callback: "idle" or "or"
  cb_old,            \* the flag as rx_callback read it for the |=
  cb_grChanged,      \* params->grChanged of the callback in progress
  cb_for,            \* the update that callback's notification belongs to
  cb_fresh,          \* that callback began after the latest reset of the flag
  trace,             \* vendor calls made, flag resets and poll-loop ends
  reads,             \* the flag values the latest poll loop read
  delivered,         \* updates whose notification was or-ed in since the reset
                     \* by a callback that began after it
  late_write,        \* a callback that began before the reset wrote after it
  in_call,           \* a notification was or-ed in during this cycle's Update call
  cycle_log,         \* what was written to stderr since the latest poll loop began
  prog,              \* the utility that runs: "gain_changes" or "recorder"
  hOpt,              \* where -h stands on the command line, if at all
  hw,                \* the device sdrplay_api_GetDevices finds
  clamp,             \* the field the device layer changes when initialized
  agc,               \* recorder: the AGC mode asked for with -g
  device,            \* main()'s copy of the device descriptor
  params,            \* the device parameters behind device_params
  init_ok,           \* main()'s init_ok: -1 before line 322, then 1 or 0
  failed,            \* positions in trace of the vendor calls that failed
  feed,              \* the buffers the device layer may deliver
  twin_feed,         \* the buffers it may deliver to the twin run instead
  next_sample_num,   \* rx_context.next_sample_num
  total_samples,     \* rx_context.total_samples
  jump_logged,       \* the latest callback wrote the sequence jump warning
  last_buf,          \* the buffer of the latest completed callback
  had_callback,      \* a callback has completed since the stream began
  twin,              \* rx_context of a second run that differs in its buffers
  oOpt,              \* recorder: -o is given
  tOpt,              \* recorder: -T is given (measure_time_diff_only)
  open_result,       \* recorder: what open() of the output file returns
  api_ver,           \* the version the installed vendor library reports
  output_fd,         \* rx_context_record.output_fd
  fd_closed,         \* recorder: main() has closed the output descriptor
  file,              \* the shorts in the output file
  ranges,            \* rx_context_record.imin, imax, qmin, qmax
  bufs,              \* the buffers the recorder's callback was called with
  writes,            \* what each of these callbacks' write() did
  callback_count,    \* rx_context_measure_time_diff.callback_count
  dropped_samples,   \* recorder: the count of the latest "dropped" message
  samples_use        \* recorder: highest index stored into samples[] and the
                     \* byte count passed to write() by the latest callback

vars ==
  << pc, exit_status, gOpt, lOpt, num_gain_changes, gRdBs, ngRdBs, LNAstates,
     nLNAstates, ngc, gRdB, LNAstate, gain_reduction_changed, elapsed,
     prev_gain_reduction_changed, streaming, pendingGr, cb_pc, cb_old,
     cb_grChanged, cb_for, cb_fresh, trace, reads, delivered, late_write,
     in_call, cycle_log, prog, hOpt, hw, clamp, agc, device, params, init_ok, failed,
     feed, twin_feed, next_sample_num, total_samples, jump_logged,
     last_buf, had_callback, twin, oOpt, tOpt, open_result, api_ver,
     output_fd, fd_closed, file, ranges, bufs, writes, callback_count,
     dropped_samples, samples_use >>

optVars == << gOpt, lOpt, num_gain_changes >>
listVars == << gRdBs, ngRdBs, LNAstates, nLNAstates >>
paramVars == << gRdB, LNAstate >>
pollVars == << elapsed, prev_gain_reduction_changed, reads >>
cbVars == << cb_pc, cb_old, cb_grChanged, cb_for, cb_fresh >>
cycleVars == << delivered, late_write, in_call, cycle_log >>
envVars ==
  << prog, hOpt, hw, clamp, feed, twin_feed, oOpt, tOpt, open_result, api_ver >>
recVars ==
  << output_fd, fd_closed, file, ranges, bufs, writes, callback_count,
     dropped_samples, samples_use >>
seqVars == << next_sample_num, total_samples, jump_logged, last_buf, had_callback, twin >>
devVars == << agc, device, params, init_ok >>

\* No callback has stored into samples[] yet.
NoUse == [top |-> -1, count |-> 0]

\* No buffer: what the buffer variables hold outside a callback.
NoBuffer == Buffer(<<0, 0>>, << >>, << >>)

\* RXContext as line 415 initializes it (the twin run's copy; cb_old is the
\* flag as its callback read it for the |=).
NoContext ==
  [gain_reduction_changed |-> 0, cb_old |-> 0, next_sample_num |-> NoSampleNum,
   total_samples |-> 0, jump_logged |-> FALSE]

\* SHRT_MAX and SHRT_MIN.
ShrtMax == 32767
ShrtMin == -32768

\* The ranges as line 399 of the recorder initializes them.
NoRanges == [imin |-> ShrtMax, imax |-> ShrtMin, qmin |-> ShrtMax, qmax |-> ShrtMin]

\* Where -h may stand: not given, before the other options, or after them.
HelpPlaces == {"none", "first", "last"}

\* The state main() starts in (lines 44-65), whatever the command line and
\* the device: the default lists of one element, nothing called yet.
Start ==
  /\ pc = "options"
  /\ exit_status = -1
  /\ gRdBs = <<DefaultGRdB>> /\ ngRdBs = 1
  /\ LNAstates = <<DefaultLNAstate>> /\ nLNAstates = 1
  /\ ngc = 0
  /\ gRdB = 0 /\ LNAstate = 0
  /\ gain_reduction_changed = 0
  /\ elapsed = 0
  /\ prev_gain_reduction_changed = 0
  /\ streaming = FALSE
  /\ pendingGr = {}
  /\ cb_pc = "idle" /\ cb_old = 0 /\ cb_grChanged = 0 /\ cb_for = 0
  /\ cb_fresh = TRUE
  /\ trace = << >>
  /\ reads = << >>
  /\ delivered = {}
  /\ late_write = FALSE
  /\ in_call = FALSE
  /\ cycle_log = {}
  /\ agc = "AGC_DISABLE"
  /\ device = NoDevice
  /\ params = DeviceDefaults
  /\ init_ok = -1
  /\ failed = {}
  /\ next_sample_num = NoSampleNum
  /\ total_samples = 0
  /\ jump_logged = FALSE
  /\ last_buf = NoBuffer
  /\ had_callback = FALSE
  /\ twin = NoContext
  /\ output_fd = -1
  /\ fd_closed = FALSE
  /\ file = << >>
  /\ ranges = NoRanges
  /\ bufs = << >>
  /\ writes = << >>
  /\ callback_count = 0
  /\ dropped_samples = <<0, 0>>
  /\ samples_use = NoUse

\* The gain changes utility on a device that takes every value, with every
\* -g and -l text and every change count of the model.
Init ==
  /\ Start
  /\ prog = "gain_changes"
  /\ hOpt = "none"
  /\ hw = Rsp1a
  /\ clamp = "none"
  /\ feed = QuietFeed
  /\ twin_feed = QuietFeed
  /\ oOpt = FALSE /\ tOpt = FALSE /\ open_result = -1
  /\ api_ver = ExpectedVersion
  /\ gOpt \in Options(GainTexts)
  /\ lOpt \in Options(LnaTexts)
  /\ num_gain_changes \in 0..MaxChanges

\* ----------------------------------------------------------- main(): set-up

\* exit(status) after the vendor calls of the branch; the process and its
\* streaming thread end.  The calls at the offsets failedAt returned an
\* error; those at the offsets free are cleanup calls whose result the code
\* does not look at, and they succeed or fail.
Exit(status, calls, failedAt, free) ==
  /\ pc' = "exit"
  /\ exit_status' = status
  /\ trace' = trace \o calls
  /\ streaming' = FALSE
  /\ \E unseen \in SUBSET free :
       failed' = failed \cup { Len(trace) + i : i \in failedAt \cup unseen }

\* Mutant of Fail: exit(1) right after the failed call.
FailNoCleanup(name, cleanup) == Exit(1, <<name>>, {1}, {})

\* The branch of a failed call: the call, then its cleanup calls, exit(1).
Fail(name, cleanup) ==
  Exit(1, <<name>> \o cleanup, {1}, 2..(Len(cleanup) + 1))

\* One vendor call that either succeeds and leads to `next`, or fails and
\* leads to exit(1) after the calls of its error branch.
VendorCall(at, name, next, cleanup) ==
  /\ pc = at
  /\ \E ok \in BOOLEAN :
       IF ok
         THEN /\ pc' = next
              /\ trace' = Append(trace, name)
              /\ UNCHANGED << exit_status, streaming, failed >>
         ELSE Fail(name, cleanup)

\* case 'h' (lines 176-178): usage() and exit(0).
Help == Exit(0, << >>, {}, {})

\* The getopt loop (lines 68-184), cases 'g', 'l', 'n' and 'h', the options
\* taken in the order of the command line.
ParseOptions ==
  /\ pc = "options"
  /\ prog = "gain_changes"
  /\ IF hOpt = "first"
       THEN Help /\ UNCHANGED listVars
       ELSE
         \E rg \in (IF gOpt.given THEN ParseList(gOpt.text)
                    ELSE {[ok |-> TRUE, wild |-> FALSE, size |-> ngRdBs, items |-> gRdBs]}),
            rl \in (IF lOpt.given THEN ParseList(lOpt.text)
                    ELSE {[ok |-> TRUE, wild |-> FALSE, size |-> nLNAstates, items |-> LNAstates]}) :
           IF rg.ok /\ rl.ok
             THEN /\ gRdBs' = rg.items /\ ngRdBs' = rg.size
                  /\ LNAstates' = rl.items /\ nLNAstates' = rl.size
                  /\ IF hOpt = "last"
                       THEN Help
                       ELSE /\ pc' = IF rg.wild \/ rl.wild THEN "wild" ELSE "open"
                            /\ UNCHANGED << exit_status, trace, streaming, failed >>
             ELSE /\ Exit(1, << >>, {}, {})
                  /\ UNCHANGED listVars
  /\ UNCHANGED << optVars, envVars, recVars, seqVars, devVars, ngc, paramVars,
                  gain_reduction_changed, pollVars, pendingGr, cbVars,
                  cycleVars >>

\* Lines 186-192.
ApiOpen ==
  /\ VendorCall("open", "Open", "version", << >>)
  /\ UNCHANGED << optVars, envVars, recVars, seqVars, devVars, listVars, ngc, paramVars,
                  gain_reduction_changed, pollVars, pendingGr, cbVars,
                  cycleVars >>

\* Lines 193-204: a failed query and a version mismatch both close and exit.
ApiVersion ==
  /\ pc = "version"
  /\ \E ok \in BOOLEAN :
       IF ok /\ VersionOk(api_ver)
         THEN /\ pc' = "lock"
              /\ trace' = Append(trace, "ApiVersion")
              /\ UNCHANGED << exit_status, streaming, failed >>
         ELSE Exit(1, <<"ApiVersion", "Close">>, IF ok THEN {} ELSE {1}, {2})
  /\ UNCHANGED << optVars, envVars, recVars, seqVars, devVars, listVars, ngc, paramVars,
                  gain_reduction_changed, pollVars, pendingGr, cbVars,
                  cycleVars >>

\* Lines 206-212.
LockDeviceApi ==
  /\ VendorCall("lock", "LockDeviceApi", "getdevices", <<"Close">>)
  /\ UNCHANGED << optVars, envVars, recVars, seqVars, devVars, listVars, ngc, paramVars,
                  gain_reduction_changed, pollVars, pendingGr, cbVars,
                  cycleVars >>

\* Lines 217-253: enumeration, the search for the device, and for an RSPduo
\* the single tuner mode test, after which the copy of the descriptor is
\* forced to single tuner mode.
GetDevices ==
  /\ pc = "getdevices"
  /\ \E ok \in BOOLEAN :
       IF ~ok
         THEN /\ Fail("GetDevices", <<"UnlockDeviceApi", "Close">>)
              /\ UNCHANGED device
         ELSE IF hw = NoDevice \/ (hw.hwVer = "RSPduo" /\ SingleTunerMissing(hw))
           THEN /\ Exit(1, <<"GetDevices", "UnlockDeviceApi", "Close">>, {}, {2, 3})
                /\ device' = hw
           ELSE /\ pc' = "select"
                /\ trace' = Append(trace, "GetDevices")
                /\ device' = IF hw.hwVer = "RSPduo"
                               THEN ForceSingleTuner(hw) ELSE hw
                /\ UNCHANGED << exit_status, streaming, failed >>
  /\ UNCHANGED << optVars, envVars, recVars, seqVars, agc, params, init_ok, listVars, ngc, paramVars,
                  gain_reduction_changed, pollVars, pendingGr, cbVars,
                  cycleVars >>

\* Lines 255-261.
SelectDevice ==
  /\ VendorCall("select", "SelectDevice", "unlock", <<"UnlockDeviceApi", "Close">>)
  /\ UNCHANGED << optVars, envVars, recVars, seqVars, devVars, listVars, ngc, paramVars,
                  gain_reduction_changed, pollVars, pendingGr, cbVars,
                  cycleVars >>

\* Lines 263-269.
UnlockDeviceApi ==
  /\ VendorCall("unlock", "UnlockDeviceApi", "debug", <<"ReleaseDevice", "Close">>)
  /\ UNCHANGED << optVars, envVars, recVars, seqVars, devVars, listVars, ngc, paramVars,
                  gain_reduction_changed, pollVars, pendingGr, cbVars,
                  cycleVars >>

\* Lines 271-279: the call is made only with -L.
DebugEnable ==
  /\ pc = "debug"
  /\ \E debug_enable \in BOOLEAN, ok \in BOOLEAN :
       IF ~debug_enable
         THEN /\ pc' = "getparams"
              /\ UNCHANGED << exit_status, trace, streaming, failed >>
         ELSE IF ok
           THEN /\ pc' = "getparams"
                /\ trace' = Append(trace, "DebugEnable")
                /\ UNCHANGED << exit_status, streaming, failed >>
           ELSE Fail("DebugEnable", <<"ReleaseDevice", "Close">>)
  /\ UNCHANGED << optVars, envVars, recVars, seqVars, devVars, listVars, ngc, paramVars,
                  gain_reduction_changed, pollVars, pendingGr, cbVars,
                  cycleVars >>

\* Lines 281-305: the requested values are written into the device
\* parameters; the initial gain settings are element 0 of each list.  The
\* recorder (lines 258-284) writes the gain reduction only with the AGC
\* disabled.
GetDeviceParams ==
  /\ pc = "getparams"
  /\ \E ok \in BOOLEAN :
       IF ok
         THEN /\ pc' = "init_check"
              /\ trace' = Append(trace, "GetDeviceParams")
              /\ params' = Requested(prog, agc)
              /\ \E g \in ReadElem(gRdBs, 0), l \in ReadElem(LNAstates, 0) :
                   /\ gRdB' = IF "gRdB" \in WrittenFields(prog, agc) THEN g ELSE gRdB
                   /\ LNAstate' = l
              /\ UNCHANGED << exit_status, streaming, failed >>
         ELSE /\ Fail("GetDeviceParams", <<"ReleaseDevice", "Close">>)
              /\ UNCHANGED << paramVars, params >>
  /\ UNCHANGED << optVars, envVars, recVars, seqVars, agc, device, init_ok, listVars, ngc,
                  gain_reduction_changed, pollVars, pendingGr, cbVars,
                  cycleVars >>

\* Lines 307-315: initialization without callbacks, during which the device
\* layer may replace a value it does not take.
InitCheck ==
  /\ pc = "init_check"
  /\ \E ok \in BOOLEAN :
       IF ok
         THEN /\ pc' = "verify"
              /\ trace' = Append(trace, "InitNoCallbacks")
              /\ params' = IF clamp \in ParamFields
                             THEN [params EXCEPT ![clamp] = Clamped(clamp, @)]
                             ELSE params
              /\ gRdB' = IF clamp = "gRdB" THEN Clamped(clamp, gRdB) ELSE gRdB
              /\ LNAstate' = IF clamp = "LNAstate"
                               THEN Clamped(clamp, LNAstate) ELSE LNAstate
              /\ UNCHANGED << exit_status, streaming, failed >>
         ELSE /\ Fail("InitNoCallbacks", <<"ReleaseDevice", "Close">>)
              /\ UNCHANGED << paramVars, params >>
  /\ UNCHANGED << optVars, envVars, recVars, seqVars, agc, device, init_ok, listVars, ngc,
                  gain_reduction_changed, pollVars, pendingGr, cbVars,
                  cycleVars >>

\* The value a compared field holds, and the value main() compares it with.
FieldValue(f) ==
  IF f = "gRdB" THEN gRdB ELSE IF f = "LNAstate" THEN LNAstate ELSE params[f]

Wanted(f) ==
  IF f = "gRdB" THEN gRdBs[1]
  ELSE IF f = "LNAstate" THEN LNAstates[1]
  ELSE Requested(prog, agc)[f]

\* Lines 323-341, the tests of the descriptor: tuner A, no dual sample
\* frequency, and as mode single tuner for an RSPduo and none for the other
\* devices.  The recorder (lines 302-313) expects single tuner mode of
\* every device.
DescriptorOk ==
  /\ device.tuner = "Tuner_A"
  /\ device.rspDuoMode =
       (IF prog = "recorder" \/ device.hwVer = "RSPduo"
          THEN {"Single_Tuner"} ELSE {})
  /\ device.rspDuoSampleFreq = 0

\* int init_ok (lines 322-397).
InitOk ==
  /\ DescriptorOk
  /\ \A f \in ComparedFields(prog, agc) : FieldValue(f) = Wanted(f)

\* Lines 322-404: the readback comparison; a mismatch uninitializes,
\* releases, closes and exits.
Verify ==
  /\ pc = "verify"
  /\ init_ok' = IF InitOk THEN 1 ELSE 0
  /\ IF InitOk
       THEN /\ pc' = "uninit_check"
            /\ UNCHANGED << exit_status, trace, streaming, failed >>
       ELSE Exit(1, <<"Uninit", "ReleaseDevice", "Close">>, {}, {1, 2, 3})
  /\ UNCHANGED << optVars, envVars, recVars, seqVars, agc, device, params, listVars, ngc, paramVars,
                  gain_reduction_changed, pollVars, pendingGr, cbVars,
                  cycleVars >>

\* Lines 406-412.
UninitCheck ==
  /\ VendorCall("uninit_check", "Uninit",
                IF prog = "recorder" THEN "open_output" ELSE "init",
                <<"ReleaseDevice", "Close">>)
  /\ UNCHANGED << optVars, envVars, recVars, seqVars, devVars, listVars, ngc, paramVars,
                  gain_reduction_changed, pollVars, pendingGr, cbVars,
                  cycleVars >>

\* Lines 414-439: rx_context is initialized, the callbacks are installed,
\* and the loop counter starts at 1.
InitStream ==
  /\ pc = "init"
  /\ \E ok \in BOOLEAN :
       IF ok
         THEN /\ pc' = "loop_test"
              /\ trace' = Append(trace, "Init")
              /\ streaming' = TRUE
              /\ ngc' = 1
              /\ gain_reduction_changed' = 0
              /\ next_sample_num' = NoSampleNum
              /\ total_samples' = 0
              /\ twin' = NoContext
              /\ UNCHANGED << exit_status, failed >>
         ELSE /\ Fail("Init", <<"ReleaseDevice", "Close">>)
              /\ UNCHANGED << ngc, gain_reduction_changed, next_sample_num,
                              total_samples, twin >>
  /\ UNCHANGED << optVars, envVars, recVars, devVars, listVars, paramVars, pollVars,
                  pendingGr, cbVars, cycleVars, jump_logged, last_buf,
                  had_callback >>

\* ------------------------------------------------- main(): gain-change loop

\* Line 439: ngc < num_gain_changes.
LoopTest ==
  /\ pc = "loop_test"
  /\ pc' = IF ngc < num_gain_changes THEN "set_params" ELSE "uninit"
  /\ UNCHANGED << exit_status, failed, optVars, envVars, recVars, seqVars, devVars, listVars, ngc, paramVars,
                  gain_reduction_changed, pollVars, streaming, pendingGr,
                  cbVars, trace, cycleVars >>

\* Mutant of LnaIndex: the LNA list is indexed with the gain list's length.
LnaIndexByGainLength(n) == n % ngRdBs

\* ngc % ngRdBs and ngc % nLNAstates (lines 441-442), 0-based.
GainIndex(n) == n % ngRdBs

LnaIndex(n) == n % nLNAstates

\* Lines 440-442: usleep(wait_time), then the next settings are written
\* into the pending parameters.  A size of 0 would be a division by zero.
SetParams ==
  /\ pc = "set_params"
  /\ IF ngRdBs = 0 \/ nLNAstates = 0
       THEN /\ pc' = "crash"
            /\ UNCHANGED << paramVars, trace >>
       ELSE /\ pc' = "reset"
            /\ \E g \in ReadElem(gRdBs, GainIndex(ngc)),
                  l \in ReadElem(LNAstates, LnaIndex(ngc)) :
                 gRdB' = g /\ LNAstate' = l
            /\ trace' = Append(trace, "params")
  /\ in_call' = FALSE
  /\ UNCHANGED << exit_status, failed, optVars, envVars, recVars, seqVars, devVars, listVars, ngc, gain_reduction_changed,
                  pollVars, streaming, pendingGr, cbVars, delivered,
                  late_write, cycle_log >>

\* Mutant of ResetFlag: the reset is forgotten.
ResetFlagForgotten ==
  /\ pc = "reset"
  /\ pc' = "update"
  /\ UNCHANGED << exit_status, failed, optVars, envVars, recVars, seqVars, devVars, listVars, ngc, paramVars,
                  gain_reduction_changed, pollVars, streaming, pendingGr,
                  cbVars, trace, cycleVars >>

\* Line 443: rx_context.gain_reduction_changed = 0.
ResetFlag ==
  /\ pc = "reset"
  /\ gain_reduction_changed' = 0
  /\ pc' = "update"
  /\ trace' = Append(trace, "reset")
  /\ delivered' = {}
  /\ late_write' = FALSE
  /\ cb_fresh' = (cb_pc = "idle")
  /\ twin' = [twin EXCEPT !.gain_reduction_changed = 0]
  /\ UNCHANGED << exit_status, failed, optVars, envVars, recVars, devVars, listVars,
                  ngc, paramVars, pollVars, streaming, pendingGr, cb_pc,
                  cb_old, cb_grChanged, cb_for, in_call, cycle_log,
                  next_sample_num, total_samples, jump_logged, last_buf,
                  had_callback >>

\* Line 444, the call: the request reaches the device layer, which owes a
\* grChanged notification for it from now on.
UpdateCall ==
  /\ pc = "update"
  /\ pc' = "in_update"
  /\ trace' = Append(trace, "Update")
  /\ pendingGr' = pendingGr \cup {ngc}
  /\ UNCHANGED << exit_status, failed, optVars, envVars, recVars, seqVars, devVars, listVars, ngc, paramVars,
                  gain_reduction_changed, pollVars, streaming, cbVars,
                  cycleVars >>

\* int prev_gain_reduction_changed = -1 (line 460).
PrevNone == -1

\* Mutant of UpdateReturn: a successful update goes straight to the next
\* change without waiting for its confirmation.
UpdateReturnNoWait ==
  /\ pc = "in_update"
  /\ \E ok \in BOOLEAN :
       IF ok
         THEN /\ pc' = "loop_test"
              /\ ngc' = ngc + 1
              /\ UNCHANGED << exit_status, trace, streaming, failed >>
         ELSE /\ Exit(1, <<"ReleaseDevice", "Close">>, {0}, {1, 2})
              /\ UNCHANGED ngc
  /\ UNCHANGED << optVars, envVars, recVars, seqVars, devVars, listVars, paramVars, gain_reduction_changed,
                  pollVars, pendingGr, cbVars, cycleVars >>

\* Lines 444-461, the return: a failure (of the call that trace ends with)
\* releases, closes and exits; a
\* success enters the poll loop with elapsed = 0 and no previous read.
UpdateReturn ==
  /\ pc = "in_update"
  /\ \E ok \in BOOLEAN :
       IF ok
         THEN /\ pc' = "poll"
              /\ elapsed' = 0
              /\ prev_gain_reduction_changed' = PrevNone
              /\ reads' = << >>
              /\ cycle_log' = {}
              /\ UNCHANGED << exit_status, trace, streaming, failed >>
         ELSE /\ Exit(1, <<"ReleaseDevice", "Close">>, {0}, {1, 2})
              /\ UNCHANGED << pollVars, cycle_log >>
  /\ UNCHANGED << optVars, envVars, recVars, seqVars, devVars, listVars, ngc, paramVars, gain_reduction_changed,
                  pendingGr, cbVars, delivered, late_write, in_call >>

\* Mutant of EdgeSeen: the level of the flag is taken for the edge.
EdgeSeenLevel(prev, curr) == curr # 0

\* Line 463: the previous read was 0 and the current one is not.
EdgeSeen(prev, curr) == prev = 0 /\ curr # 0

\* Mutant of PollStep: elapsed++ is forgotten.
PollStepNoCount ==
  /\ pc = "poll"
  /\ IF elapsed < UpdateTimeout
       THEN LET curr == gain_reduction_changed
            IN  /\ reads' = Append(reads, curr)
                /\ IF EdgeSeen(prev_gain_reduction_changed, curr)
                     THEN /\ pc' = "after_poll"
                          /\ trace' = Append(trace, "pollend")
                          /\ UNCHANGED << elapsed, prev_gain_reduction_changed >>
                     ELSE /\ prev_gain_reduction_changed' = curr
                          /\ UNCHANGED << elapsed, pc, trace >>
       ELSE /\ pc' = "after_poll"
            /\ trace' = Append(trace, "pollend")
            /\ UNCHANGED pollVars
  /\ UNCHANGED << exit_status, failed, optVars, envVars, recVars, seqVars,
                  devVars, listVars, ngc, paramVars, gain_reduction_changed,
                  streaming, pendingGr, cbVars, cycleVars >>

\* Lines 461-468, one evaluation of the loop test and one pass of the body:
\* the flag is read once; on an edge the loop is left with elapsed as it is,
\* otherwise the read becomes the previous one and elapsed is incremented
\* after usleep(1).  At elapsed = UpdateTimeout the loop is left without a
\* read.
PollStep ==
  /\ pc = "poll"
  /\ IF elapsed < UpdateTimeout
       THEN LET curr == gain_reduction_changed
            IN  /\ reads' = Append(reads, curr)
                /\ IF EdgeSeen(prev_gain_reduction_changed, curr)
                     THEN /\ pc' = "after_poll"
                          /\ trace' = Append(trace, "pollend")
                          /\ UNCHANGED << elapsed, prev_gain_reduction_changed >>
                     ELSE /\ prev_gain_reduction_changed' = curr
                          /\ elapsed' = elapsed + 1
                          /\ UNCHANGED << pc, trace >>
       ELSE /\ pc' = "after_poll"
            /\ trace' = Append(trace, "pollend")
            /\ UNCHANGED pollVars
  /\ UNCHANGED << exit_status, failed, optVars, envVars, recVars, seqVars, devVars, listVars, ngc, paramVars,
                  gain_reduction_changed, streaming, pendingGr, cbVars,
                  cycleVars >>

\* Mutant of AfterPoll: a timeout ends the program.
AfterPollAbort ==
  /\ pc = "after_poll"
  /\ IF gain_reduction_changed = 0
       THEN /\ cycle_log' = cycle_log \cup {"gain change update timeout"}
            /\ Exit(1, <<"ReleaseDevice", "Close">>, {}, {1, 2})
            /\ UNCHANGED ngc
       ELSE /\ ngc' = ngc + 1
            /\ pc' = "loop_test"
            /\ UNCHANGED << cycle_log, exit_status, trace, streaming, failed >>
  /\ UNCHANGED << optVars, envVars, recVars, seqVars, devVars, listVars, paramVars, gain_reduction_changed,
                  pollVars, pendingGr, cbVars, delivered, late_write, in_call >>

\* Lines 472-475: the flag is read once more; when it is 0 the timeout
\* warning is written; then ngc++.
AfterPoll ==
  /\ pc = "after_poll"
  /\ cycle_log' = IF gain_reduction_changed = 0
                    THEN cycle_log \cup {"gain change update timeout"}
                    ELSE cycle_log
  /\ ngc' = ngc + 1
  /\ pc' = "loop_test"
  /\ UNCHANGED << exit_status, failed, optVars, envVars, recVars, seqVars, devVars, listVars, paramVars,
                  gain_reduction_changed, pollVars, streaming, pendingGr,
                  cbVars, trace, delivered, late_write, in_call >>

\* --------------------------------------------------------- main(): tear-down

\* Lines 477-483 (recorder, lines 441-447): the streaming thread is
\* stopped; a callback in progress completes first.
UninitStream ==
  /\ pc = "uninit"
  /\ cb_pc = "idle"
  /\ \E ok \in BOOLEAN :
       IF ok
         THEN /\ pc' = IF prog = "recorder" THEN "close_output" ELSE "lock2"
              /\ trace' = Append(trace, "Uninit")
              /\ streaming' = FALSE
              /\ UNCHANGED << exit_status, failed >>
         ELSE Fail("Uninit", <<"ReleaseDevice", "Close">>)
  /\ UNCHANGED << optVars, envVars, recVars, seqVars, devVars, listVars, ngc, paramVars, gain_reduction_changed,
                  pollVars, pendingGr, cbVars, cycleVars >>

\* Lines 485-490.
LockForRelease ==
  /\ VendorCall("lock2", "LockDeviceApi", "release", <<"Close">>)
  /\ UNCHANGED << optVars, envVars, recVars, seqVars, devVars, listVars, ngc, paramVars, gain_reduction_changed,
                  pollVars, pendingGr, cbVars, cycleVars >>

\* Lines 491-497.
ReleaseDevice ==
  /\ VendorCall("release", "ReleaseDevice", "unlock2", <<"UnlockDeviceApi", "Close">>)
  /\ UNCHANGED << optVars, envVars, recVars, seqVars, devVars, listVars, ngc, paramVars, gain_reduction_changed,
                  pollVars, pendingGr, cbVars, cycleVars >>

\* Lines 498-503.
UnlockAfterRelease ==
  /\ VendorCall("unlock2", "UnlockDeviceApi", "close", <<"Close">>)
  /\ UNCHANGED << optVars, envVars, recVars, seqVars, devVars, listVars, ngc, paramVars, gain_reduction_changed,
                  pollVars, pendingGr, cbVars, cycleVars >>

\* Mutant of ApiClose: the result of sdrplay_api_Close is not looked at.
ApiCloseIgnoresError ==
  /\ pc = "close"
  /\ \E ok \in BOOLEAN :
       Exit(0, <<"Close">>, IF ok THEN {} ELSE {1}, {})
  /\ UNCHANGED << optVars, envVars, recVars, seqVars, devVars, listVars, ngc,
                  paramVars, gain_reduction_changed, pollVars, pendingGr,
                  cbVars, cycleVars >>

\* Lines 505-512: return 0, or exit(1) when the close fails.
ApiClose ==
  /\ pc = "close"
  /\ \E ok \in BOOLEAN :
       Exit(IF ok THEN 0 ELSE 1, <<"Close">>, IF ok THEN {} ELSE {1}, {})
  /\ UNCHANGED << optVars, envVars, recVars, seqVars, devVars, listVars, ngc, paramVars, gain_reduction_changed,
                  pollVars, pendingGr, cbVars, cycleVars >>

\* ------------------------------------------------------------- rx_callback

\* The buffers of a feed the stream can still take without its total going
\* over the limit of the feed.
Fitting(buffers, total) ==
  { b \in buffers : total + b.numSamples <= StreamLimit(buffers) }

\* Line 553: rx_context->next_sample_num != 0xffffffff &&
\*           params->firstSampleNum != rx_context->next_sample_num
JumpSeen(next, first) == next # NoSampleNum /\ first # next

\* Mutant of FlagAfter: = in place of |=.
FlagAfterAssign(old, grChanged, next, first) == grChanged

\* Mutant of FlagAfter: a jump in the sample sequence sets the flag.
FlagAfterJumpSets(old, grChanged, next, first) ==
  IF JumpSeen(next, first) THEN 1 ELSE BitOr(old, grChanged)

\* The flag as rx_callback leaves it (line 545): the value read, or-ed with
\* params->grChanged, whatever the sample numbers are.
FlagAfter(old, grChanged, next, first) == BitOr(old, grChanged)

\* Lines 545-557 on one RXContext: the write of the |=, the test for a jump
\* in the sample sequence, and the new next_sample_num and total_samples.
RxCallbackBody(ctx, grChanged, b) ==
  [ctx EXCEPT
     !.gain_reduction_changed =
        FlagAfter(ctx.cb_old, grChanged, ctx.next_sample_num, b.firstSampleNum),
     !.cb_old = 0,
     !.jump_logged = JumpSeen(ctx.next_sample_num, b.firstSampleNum),
     !.next_sample_num = Add32(b.firstSampleNum, b.numSamples),
     !.total_samples = ctx.total_samples + b.numSamples]

\* rx_context of the run itself, as the record RxCallbackBody works on.
Context ==
  [gain_reduction_changed |-> gain_reduction_changed, cb_old |-> cb_old,
   next_sample_num |-> next_sample_num, total_samples |-> total_samples,
   jump_logged |-> jump_logged]

\* Lines 536-545, up to the read of the flag for the |=.  The device layer
\* passes grChanged # 0 for an update whose notification it still owes, and
\* grChanged = 0 otherwise.  The twin run is called at the same point with
\* the same grChanged.
CallbackEnter ==
  /\ streaming
  /\ prog = "gain_changes"
  /\ cb_pc = "idle"
  /\ Fitting(feed, total_samples) # {}
  /\ Fitting(twin_feed, twin.total_samples) # {}
  /\ \E gr \in GrValues :
       /\ cb_grChanged' = gr
       /\ IF gr = 0
            THEN cb_for' = 0 /\ UNCHANGED pendingGr
            ELSE \E u \in pendingGr :
                   cb_for' = u /\ pendingGr' = pendingGr \ {u}
  /\ cb_old' = gain_reduction_changed
  /\ twin' = [twin EXCEPT !.cb_old = twin.gain_reduction_changed]
  /\ cb_pc' = "or"
  /\ cb_fresh' = TRUE
  /\ UNCHANGED << pc, exit_status, failed, optVars, envVars, recVars, devVars,
                  listVars, ngc, paramVars, gain_reduction_changed, pollVars,
                  streaming, trace, cycleVars, next_sample_num, total_samples,
                  jump_logged, last_buf, had_callback >>

\* Lines 545-558: the write of the |=, then the bookkeeping of the sample
\* sequence; the callback returns and its locals are gone.  The buffer the
\* callback was called with is drawn here, where it is first used.
CallbackOr ==
  /\ streaming
  /\ cb_pc = "or"
  /\ \E b \in Fitting(feed, total_samples),
        tb \in Fitting(twin_feed, twin.total_samples) :
       LET after == RxCallbackBody(Context, cb_grChanged, b)
       IN  /\ gain_reduction_changed' = after.gain_reduction_changed
           /\ next_sample_num' = after.next_sample_num
           /\ total_samples' = after.total_samples
           /\ jump_logged' = after.jump_logged
           /\ last_buf' = b
           /\ twin' = RxCallbackBody(twin, cb_grChanged, tb)
  /\ had_callback' = TRUE
  /\ cb_pc' = "idle"
  /\ cb_old' = 0 /\ cb_grChanged' = 0 /\ cb_for' = 0 /\ cb_fresh' = TRUE
  /\ delivered' = IF cb_grChanged # 0 /\ cb_fresh
                    THEN delivered \cup {cb_for} ELSE delivered
  /\ late_write' = (late_write \/ ~cb_fresh)
  /\ in_call' = (in_call \/ (cb_grChanged # 0 /\ cb_for = ngc /\ pc = "in_update"))
  /\ UNCHANGED << pc, exit_status, failed, optVars, envVars, recVars, devVars,
                  listVars, ngc, paramVars, pollVars, streaming, pendingGr,
                  trace, cycle_log >>

\* ---------------------------------------------------------------- recorder
\* single_tuner_recorder.c.  Its main() is the one of the gain changes
\* utility from sdrplay_api_Open to the second sdrplay_api_Uninit and from
\* the second sdrplay_api_LockDeviceApi on, statement for statement; the
\* actions above model both.  What differs is modelled here.

\* The -g and -l texts of the recorder: one number, "AGC", and texts
\* sscanf("%d") does not take.
RecorderGainTexts == { <<"4">>, <<"A", "G", "C">>, << >>, <<"x">> }

RecorderLnaTexts == { <<"1">>, << >> }

\* open() returns -1, or the lowest descriptor that is free: 0 when the
\* process was started with standard input closed.
OpenResults == {-1, 0, 3}

\* The getopt loop of the recorder (lines 73-161), cases 'g', 'l' and 'h'.
\* gRdB and LNAstate are held as lists of one element.
ParseOptionsRecorder ==
  /\ pc = "options"
  /\ prog = "recorder"
  /\ IF hOpt = "first"
       THEN Help /\ UNCHANGED << listVars, agc >>
       ELSE
         LET isAgc == gOpt.given /\ gOpt.text = <<"A", "G", "C">>
             rg == ScanInt(gOpt.text, 1)
             rl == ScanInt(lOpt.text, 1)
         IN  IF (gOpt.given /\ ~isAgc /\ ~rg.ok) \/ (lOpt.given /\ ~rl.ok)
               THEN /\ Exit(1, << >>, {}, {})
                    /\ UNCHANGED << listVars, agc >>
               ELSE /\ agc' = IF isAgc THEN "AGC_50HZ" ELSE "AGC_DISABLE"
                    /\ gRdBs' = IF gOpt.given /\ ~isAgc THEN <<rg.value>> ELSE gRdBs
                    /\ LNAstates' = IF lOpt.given THEN <<rl.value>> ELSE LNAstates
                    /\ UNCHANGED << ngRdBs, nLNAstates >>
                    /\ IF hOpt = "last"
                         THEN Help
                         ELSE /\ pc' = "open"
                              /\ UNCHANGED << exit_status, trace, streaming, failed >>
  /\ UNCHANGED << optVars, envVars, recVars, seqVars, device, params, init_ok, ngc,
                  paramVars, gain_reduction_changed, pollVars, pendingGr,
                  cbVars, cycleVars >>

\* Lines 417-428: the output file is opened before the stream is started.
OpenOutput ==
  /\ pc = "open_output"
  /\ IF ~tOpt /\ oOpt
       THEN IF open_result = -1
              THEN /\ Exit(1, <<"open(output_file)", "ReleaseDevice", "Close">>,
                           {1}, {2, 3})
                   /\ UNCHANGED output_fd
              ELSE /\ output_fd' = open_result
                   /\ pc' = "init_rec"
                   /\ trace' = Append(trace, "open(output_file)")
                   /\ UNCHANGED << exit_status, streaming, failed >>
       ELSE /\ pc' = "init_rec"
            /\ UNCHANGED << output_fd, exit_status, trace, streaming, failed >>
  /\ UNCHANGED << optVars, envVars, seqVars, devVars, listVars, ngc, paramVars,
                  gain_reduction_changed, pollVars, pendingGr, cbVars,
                  cycleVars, fd_closed, file, ranges, bufs, writes,
                  callback_count, dropped_samples, samples_use >>

\* Lines 392-415 and 430-439: the contexts are initialized, the callbacks
\* are installed, and main() sleeps for the streaming time.
InitStreamRecorder ==
  /\ pc = "init_rec"
  /\ \E ok \in BOOLEAN :
       IF ok
         THEN /\ pc' = "sleep"
              /\ trace' = Append(trace, "Init")
              /\ streaming' = TRUE
              /\ UNCHANGED << exit_status, failed >>
         ELSE Fail("Init", <<"ReleaseDevice", "Close">>)
  /\ UNCHANGED << optVars, envVars, recVars, seqVars, devVars, listVars, ngc,
                  paramVars, gain_reduction_changed, pollVars, pendingGr,
                  cbVars, cycleVars >>

\* Line 439: sleep(streaming_time) returns.
StreamingTimeOver ==
  /\ pc = "sleep"
  /\ pc' = "uninit"
  /\ UNCHANGED << exit_status, failed, trace, streaming, optVars, envVars,
                  recVars, seqVars, devVars, listVars, ngc, paramVars,
                  gain_reduction_changed, pollVars, pendingGr, cbVars,
                  cycleVars >>

\* Lines 449-478: a second after the stream was stopped the descriptor is
\* closed when it is > 0 (a failure is logged), the sample rate estimate is
\* printed and the file renamed (a failure is logged).
CloseOutput ==
  /\ pc = "close_output"
  /\ pc' = "lock2"
  /\ IF ~tOpt /\ output_fd > 0
       THEN /\ fd_closed' = TRUE
            /\ trace' = Append(trace, "close(output_file)")
       ELSE UNCHANGED << fd_closed, trace >>
  /\ UNCHANGED << exit_status, failed, streaming, optVars, envVars, seqVars,
                  devVars, listVars, ngc, paramVars, gain_reduction_changed,
                  pollVars, pendingGr, cbVars, cycleVars, output_fd, file,
                  ranges, bufs, writes, callback_count, dropped_samples,
                  samples_use >>

\* Largest number of callbacks the model lets the recorder's stream make.
MaxCallbacks == 2

Min(a, b) == IF a < b THEN a ELSE b

Max(a, b) == IF a > b THEN a ELSE b

\* Lines 558-569: the smallest and the largest sample of one array, from
\* SHRT_MAX and SHRT_MIN on.
\* The loop folds Min (Max) over x[i], x[i+1], ... from acc on; the result
\* is acc against the least (greatest) of these elements.
ArrayMin(x, i, acc) ==
  LET rest == { x[k] : k \in i..Len(x) }
  IN  IF rest = {} THEN acc
      ELSE Min(acc, CHOOSE m \in rest : \A n \in rest : m <= n)

ArrayMax(x, i, acc) ==
  LET rest == { x[k] : k \in i..Len(x) }
  IN  IF rest = {} THEN acc
      ELSE Max(acc, CHOOSE m \in rest : \A n \in rest : m >= n)

\* Lines 570-573.
RangesAfter(r, b) ==
  [imin |-> Min(r.imin, ArrayMin(b.xi, 1, ShrtMax)),
   imax |-> Max(r.imax, ArrayMax(b.xi, 1, ShrtMin)),
   qmin |-> Min(r.qmin, ArrayMin(b.xq, 1, ShrtMax)),
   qmax |-> Max(r.qmax, ArrayMax(b.xq, 1, ShrtMin))]

\* Lines 577-583: samples[2*i] = xi[i], then samples[2*i+1] = xq[i], for
\* the numSamples samples of the buffer (samples[k] is element k + 1).
SamplesArray(b) ==
  [k \in 1..(2 * b.numSamples) |->
     IF k % 2 = 1 THEN b.xi[(k + 1) \div 2] ELSE b.xq[k \div 2]]

\* What write() of count shorts may return: -1, or the number written
\* (for a large count: none, all but one, all).
WriteResults(count) ==
  IF count <= 2 * (MaxSamples + 1)
    THEN {-1} \cup (0..count)
    ELSE {-1, 0, count - 1, count}

\* Lines 577-585: the highest index stored into samples[] for numSamples
\* samples (2*i+1 for i = numSamples - 1), and count.
UseOf(numSamples) ==
  [top |-> 2 * numSamples - 1, count |-> numSamples * 2 * SizeofShort]

\* Where main() is after the stores into samples[]: a store beyond the end
\* of the array is undefined behaviour, after which the process may go on
\* or be killed.
AfterStores(numSamples, at) ==
  IF 2 * numSamples > SamplesLen THEN {at, "crash"} ELSE {at}

\* Line 576: rxContext->output_fd > 0.
DescriptorUsable(fd) == fd > 0

\* The shorts write() put into the file when it returned nwritten.
WrittenPart(samples, nwritten) ==
  IF nwritten = -1 THEN << >> ELSE SubSeq(samples, 1, nwritten)

\* a < b of two unsigned ints.
Less32(a, b) == a[1] < b[1] \/ (a[1] = b[1] /\ a[2] < b[2])

\* a - b in unsigned int arithmetic.
Sub32(a, b) ==
  LET low == a[2] - b[2]
      borrow == IF low < 0 THEN 1 ELSE 0
  IN  << (a[1] - b[1] - borrow + Half) % Half, (low + Half) % Half >>

\* UINT_MAX.
UintMax == << Half - 1, Half - 1 >>

\* Lines 548-553: dropped_samples, for a buffer that does not start at
\* next_sample_num.
DroppedSamples(next, first) ==
  IF Less32(next, first)
    THEN Sub32(first, next)
    ELSE Add32(Sub32(UintMax, Sub32(first, next)), 1)

\* Mutant of FdAfterWrite: a failed write ends the recording.
FdAfterWriteGivesUp(fd, nwritten) == IF nwritten = -1 THEN -1 ELSE fd

\* Lines 585-590: whatever write() returned, a message at most is printed;
\* rxContext->output_fd is not assigned.
FdAfterWrite(fd, nwritten) == fd

\* rx_callback_record (lines 532-592), called with one buffer.
RecordCallback ==
  /\ streaming
  /\ prog = "recorder"
  /\ ~tOpt
  /\ pc # "crash"
  /\ Len(bufs) < MaxCallbacks
  /\ \E b \in Fitting(feed, total_samples) :
       /\ total_samples' = total_samples + b.numSamples
       /\ jump_logged' = JumpSeen(next_sample_num, b.firstSampleNum)
       /\ dropped_samples' =
            IF JumpSeen(next_sample_num, b.firstSampleNum)
              THEN DroppedSamples(next_sample_num, b.firstSampleNum)
              ELSE dropped_samples
       /\ next_sample_num' = Add32(b.firstSampleNum, b.numSamples)
       /\ ranges' = RangesAfter(ranges, b)
       /\ bufs' = Append(bufs, b)
       /\ last_buf' = b
       /\ IF DescriptorUsable(output_fd)
            THEN \E nwritten \in WriteResults(2 * b.numSamples),
                    at \in AfterStores(b.numSamples, pc) :
                   /\ file' = file \o WrittenPart(SamplesArray(b), nwritten)
                   /\ output_fd' = FdAfterWrite(output_fd, nwritten)
                   /\ samples_use' = UseOf(b.numSamples)
                   /\ pc' = at
                   /\ writes' = Append(writes,
                        IF nwritten = -1 THEN "failed"
                        ELSE IF nwritten # 2 * b.numSamples THEN "incomplete"
                        ELSE "full")
            ELSE /\ writes' = Append(writes, "none")
                 /\ UNCHANGED << file, output_fd, samples_use, pc >>
  /\ had_callback' = TRUE
  /\ UNCHANGED << exit_status, failed, trace, streaming, optVars, envVars,
                  devVars, listVars, ngc, paramVars, gain_reduction_changed,
                  pollVars, pendingGr, cbVars, cycleVars, twin, fd_closed,
                  callback_count >>

\* rx_callback_measure_time_diff (lines 594-614): the time since the previous
\* callback is printed when it is above the threshold, and the callbacks
\* are counted.
MeasureCallback ==
  /\ streaming
  /\ prog = "recorder"
  /\ tOpt
  /\ callback_count < MaxCallbacks
  /\ callback_count' = callback_count + 1
  /\ UNCHANGED << pc, exit_status, failed, trace, streaming, optVars, envVars,
                  seqVars, devVars, listVars, ngc, paramVars,
                  gain_reduction_changed, pollVars, pendingGr, cbVars,
                  cycleVars, output_fd, fd_closed, file, ranges, bufs, writes,
                  dropped_samples, samples_use >>

\* ------------------------------------------------------------ specification

Next ==
  \/ ParseOptions
  \/ ApiOpen
  \/ ApiVersion
  \/ LockDeviceApi
  \/ GetDevices
  \/ SelectDevice
  \/ UnlockDeviceApi
  \/ DebugEnable
  \/ GetDeviceParams
  \/ InitCheck
  \/ Verify
  \/ UninitCheck
  \/ InitStream
  \/ LoopTest
  \/ SetParams
  \/ ResetFlag
  \/ UpdateCall
  \/ UpdateReturn
  \/ PollStep
  \/ AfterPoll
  \/ UninitStream
  \/ LockForRelease
  \/ ReleaseDevice
  \/ UnlockAfterRelease
  \/ ApiClose
  \/ CallbackEnter
  \/ CallbackOr

Spec == Init /\ [][Next]_vars

\* The steps of the recorder that are not steps of the gain changes utility.
RecorderNext ==
  \/ ParseOptionsRecorder
  \/ OpenOutput
  \/ InitStreamRecorder
  \/ StreamingTimeOver
  \/ CloseOutput
  \/ RecordCallback
  \/ MeasureCallback

BothNext == Next \/ RecorderNext

\* The command lines of the set-up specification: few list texts, a change
\* count of one or two cycles, and -h in every place.
SetupGainTexts == { <<"4", ",", "2">>, << >> }

SetupLnaTexts == { << >> }

SetupChanges == {2, 3}

\* Both utilities on every device of the model, with every field as the one
\* the device layer changes, every result of open(), and quiet feeds.  With
\* -h on the command line nothing of the device is ever looked at.
SetupInit ==
  /\ Start
  /\ prog \in {"gain_changes", "recorder"}
  /\ hOpt \in HelpPlaces
  /\ hw \in (IF hOpt = "none" THEN Devices ELSE {Rsp1a})
  /\ clamp \in (IF hOpt = "none" THEN Clamps ELSE {"none"})
  /\ feed \in (IF prog = "gain_changes" /\ hOpt = "none" /\ hw = Rsp1a
                  /\ clamp = "none"
                THEN {QuietFeed, JumpyFeed} ELSE {QuietFeed})
  /\ twin_feed = QuietFeed
  /\ oOpt \in (IF prog = "recorder" /\ hOpt = "none" THEN BOOLEAN ELSE {FALSE})
  /\ tOpt \in (IF prog = "recorder" /\ hOpt = "none" THEN BOOLEAN ELSE {FALSE})
  /\ open_result \in (IF oOpt THEN OpenResults ELSE {-1})
  /\ api_ver \in (IF hOpt = "none" /\ hw = Rsp1a /\ clamp = "none"
                   THEN ApiVersions ELSE {ExpectedVersion})
  /\ gOpt \in Options(IF prog = "recorder" THEN RecorderGainTexts ELSE SetupGainTexts)
  /\ lOpt \in Options(IF prog = "recorder" THEN RecorderLnaTexts ELSE SetupLnaTexts)
  /\ num_gain_changes \in (IF prog = "recorder" THEN {0} ELSE SetupChanges)

SetupSpec == SetupInit /\ [][BothNext]_vars

\* The gain changes utility on a plain device with its default lists, over a
\* stream whose buffers start at sample numbers around the wrap.
StreamChanges == {1, 2}

StreamInit ==
  /\ Start
  /\ prog = "gain_changes"
  /\ hOpt = "none"
  /\ hw = Rsp1a
  /\ clamp = "none"
  /\ feed = RichFeed
  /\ twin_feed = QuietFeed
  /\ oOpt = FALSE
  /\ tOpt = FALSE
  /\ open_result = -1
  /\ api_ver = ExpectedVersion
  /\ gOpt = NotGiven
  /\ lOpt = NotGiven
  /\ num_gain_changes \in StreamChanges

StreamSpec == StreamInit /\ [][Next]_vars

\* The feed of the twin run: the buffers of RichFeed, and empty ones.
TwinFeed == RichFeed \cup QuietFeed

\* The same utility over a quiet stream, with a twin run that is called
\* back at the same points with the same grChanged and with buffers of its
\* own, at other sample numbers and of other lengths.
TwinInit ==
  /\ Start
  /\ prog = "gain_changes"
  /\ hOpt = "none"
  /\ hw = Rsp1a
  /\ clamp = "none"
  /\ feed = QuietFeed
  /\ twin_feed = TwinFeed
  /\ oOpt = FALSE
  /\ tOpt = FALSE
  /\ open_result = -1
  /\ api_ver = ExpectedVersion
  /\ gOpt = NotGiven
  /\ lOpt = NotGiven
  /\ num_gain_changes \in StreamChanges

TwinSpec == TwinInit /\ [][Next]_vars

\* The steps of the recorder: those its main() shares with the gain changes
\* utility, and its own.
RecNext ==
  \/ ApiOpen
  \/ ApiVersion
  \/ LockDeviceApi
  \/ GetDevices
  \/ SelectDevice
  \/ UnlockDeviceApi
  \/ DebugEnable
  \/ GetDeviceParams
  \/ InitCheck
  \/ Verify
  \/ UninitCheck
  \/ UninitStream
  \/ LockForRelease
  \/ ReleaseDevice
  \/ UnlockAfterRelease
  \/ ApiClose
  \/ RecorderNext

\* The recorder with its default gain settings on an RSPduo, with and
\* without -o and -T, over a stream of buffers of one and two samples.
RecInit ==
  /\ Start
  /\ prog = "recorder"
  /\ hOpt = "none"
  /\ hw = RspDuoFree
  /\ clamp = "none"
  /\ feed = RichFeed
  /\ twin_feed = QuietFeed
  /\ oOpt \in BOOLEAN
  /\ tOpt \in BOOLEAN
  /\ open_result \in (IF oOpt /\ ~tOpt THEN OpenResults ELSE {-1})
  /\ api_ver = ExpectedVersion
  /\ gOpt = NotGiven
  /\ lOpt = NotGiven
  /\ num_gain_changes = 0

RecSpec == RecInit /\ [][RecNext]_vars

\* The recorder over a stream of large buffers.
BigInit ==
  /\ Start
  /\ prog = "recorder"
  /\ hOpt = "none"
  /\ hw = RspDuoFree
  /\ clamp = "none"
  /\ feed = BigFeed
  /\ twin_feed = QuietFeed
  /\ oOpt \in BOOLEAN
  /\ tOpt \in BOOLEAN
  /\ open_result \in (IF oOpt /\ ~tOpt THEN OpenResults ELSE {-1})
  /\ api_ver = ExpectedVersion
  /\ gOpt = NotGiven
  /\ lOpt = NotGiven
  /\ num_gain_changes = 0

BigSpec == BigInit /\ [][RecNext]_vars

\* The steps of main() of the gain changes utility.
MainNext ==
  \/ ParseOptions
  \/ ApiOpen
  \/ ApiVersion
  \/ LockDeviceApi
  \/ GetDevices
  \/ SelectDevice
  \/ UnlockDeviceApi
  \/ DebugEnable
  \/ GetDeviceParams
  \/ InitCheck
  \/ Verify
  \/ UninitCheck
  \/ InitStream
  \/ LoopTest
  \/ SetParams
  \/ ResetFlag
  \/ UpdateCall
  \/ UpdateReturn
  \/ PollStep
  \/ AfterPoll
  \/ UninitStream
  \/ LockForRelease
  \/ ReleaseDevice
  \/ UnlockAfterRelease
  \/ ApiClose

LiveGainTexts == { <<"4", ",", "2">> }

LiveChanges == 0..3

\* The gain changes utility with its default lists or a list of two gains,
\* on a plain device over a quiet stream.
LiveInit ==
  /\ Start
  /\ prog = "gain_changes"
  /\ hOpt = "none"
  /\ hw = Rsp1a
  /\ clamp = "none"
  /\ feed = QuietFeed
  /\ twin_feed = QuietFeed
  /\ oOpt = FALSE
  /\ tOpt = FALSE
  /\ open_result = -1
  /\ api_ver = ExpectedVersion
  /\ gOpt \in Options(LiveGainTexts)
  /\ lOpt = NotGiven
  /\ num_gain_changes \in LiveChanges

\* main() keeps running (usleep and the vendor calls return), and
\* sdrplay_api_Uninit, which waits for a callback in progress, returns
\* although callbacks keep coming while it has not been called.  A callback
\* that has begun runs to its end (rx_callback has no loop); whether and
\* when callbacks begin, and what they carry, is left open.
LiveSpec ==
  /\ LiveInit
  /\ [][Next]_vars
  /\ WF_vars(MainNext)
  /\ SF_vars(UninitStream)
  /\ WF_vars(CallbackOr)

\* ------------------------------------------------------------- properties

\* The events of the gain-change loop that trace records: the write of the
\* pending parameters, the reset of the flag, the update request and the end
\* of the poll loop.
LoopEvents == {"params", "reset", "Update", "pollend"}

Count(name) == Len(SelectSeq(trace, LAMBDA e : e = name))

\* The poll loop was left by its break.
LeftEarly == pc = "after_poll" /\ elapsed < UpdateTimeout

\* The poll loop was left because elapsed reached its bound.
Exhausted == pc = "after_poll" /\ elapsed = UpdateTimeout

\* The last two reads of the poll loop were 0 and then not 0.
EdgeRead ==
  /\ Len(reads) >= 2
  /\ reads[Len(reads) - 1] = 0
  /\ reads[Len(reads)] # 0

\* A step of main() (every step of rx_callback changes cb_pc).
MainStep == cb_pc' = cb_pc

\* C1: at most one update is in flight.  Between any two update requests
\* the poll loop of the earlier one has ended, and a poll loop ends only by
\* reading the flag 0 and then not 0, or with elapsed = UpdateTimeout.
C1_OneUpdateInFlight ==
  /\ LET ev == SelectSeq(trace, LAMBDA e : e \in {"Update", "pollend"})
     IN  \A i \in 1..(Len(ev) - 1) : ev[i] = "Update" => ev[i + 1] = "pollend"
  /\ pc = "update" => Count("pollend") = Count("Update")
  /\ pc = "after_poll" => ((LeftEarly /\ EdgeRead) \/ Exhausted)

C1_Witness == Count("Update") >= 2 /\ pc = "in_update"

\* C2: in every cycle main() writes the flag exactly once, to 0, after the
\* new gain and LNA values are in the pending parameters and before the
\* update request; no other step of main() in the loop changes the flag.
\* Each loop event follows the one that precedes it in the cycle.
C2_ResetOncePerCycle ==
  [][ /\ (MainStep /\ pc = "reset")
        => /\ gain_reduction_changed' = 0
           /\ pc' = "update"
           /\ gRdB \in ReadElem(gRdBs, GainIndex(ngc))
           /\ LNAstate \in ReadElem(LNAstates, LnaIndex(ngc))
      /\ (MainStep /\ pc \notin {"reset", "init"})
        => gain_reduction_changed' = gain_reduction_changed
      /\ (Len(trace') = Len(trace) + 1 /\ trace'[Len(trace')] \in LoopEvents)
        => << trace[Len(trace)], trace'[Len(trace')] >> \in
             { <<"Init", "params">>, <<"pollend", "params">>,
               <<"params", "reset">>, <<"reset", "Update">>,
               <<"Update", "pollend">> }
    ]_vars

C2_Witness ==
  pc = "in_update" /\ Count("reset") = 2 /\ gain_reduction_changed = 0

\* C3: the poll loop is left before elapsed reaches UpdateTimeout only when
\* its last two reads were 0 and then not 0: never on the first read, and
\* never in a cycle in which every read was not 0.
C3_EarlyExitNeedsEdge ==
  LeftEarly =>
    /\ EdgeRead
    /\ Len(reads) # 1
    /\ \E i \in 1..Len(reads) : reads[i] = 0

C3_Witness == LeftEarly /\ Len(reads) = 2

TimeoutLogged == "gain change update timeout" \in cycle_log

\* The cycle that has just ended (reads, elapsed and cycle_log are still its).
CycleEnded == pc = "loop_test" /\ ngc > 1

\* C4: in every cycle the timeout warning is logged exactly when the poll
\* loop ran to its bound without seeing the edge, a cycle whose every read
\* was not 0 included.
C4_WarningIffExhausted ==
  CycleEnded => (TimeoutLogged <=> elapsed = UpdateTimeout)

\* C5: when the notification of an update is or-ed in during the update
\* call itself, the poll loop of that cycle does not run to its bound.
C5_SynchronousIsConfirmed ==
  (pc = "after_poll" /\ in_call) => elapsed < UpdateTimeout

\* C6: a cycle in which the flag is never set makes exactly UpdateTimeout
\* reads and logs the timeout warning; the program does not end, and each
\* further step of main() leads on to the update request of the next change
\* index while the loop has one.
C6_QuietCycleTimesOut ==
  [][ /\ (MainStep /\ pc = "after_poll" /\ gain_reduction_changed = 0)
        => /\ elapsed = UpdateTimeout
           /\ Len(reads) = UpdateTimeout
           /\ \A i \in 1..Len(reads) : reads[i] = 0
           /\ TimeoutLogged'
           /\ exit_status' = -1
           /\ pc' = "loop_test"
           /\ ngc' = ngc + 1
      /\ (MainStep /\ CycleEnded /\ TimeoutLogged /\ ngc < num_gain_changes)
        => (pc' = "set_params" /\ exit_status' = -1)
      /\ (MainStep /\ pc = "set_params") => (pc' = "reset" /\ exit_status' = -1)
      /\ (MainStep /\ pc = "reset") => (pc' = "update" /\ exit_status' = -1)
      /\ (MainStep /\ pc = "update")
        => /\ trace' = Append(trace, "Update")
           /\ Count("Update")' = ngc
           /\ ngc \in pendingGr'
           /\ exit_status' = -1
    ]_vars

C6_Witness ==
  /\ pc = "in_update" /\ ngc = 2 /\ TimeoutLogged
  /\ Len(reads) = UpdateTimeout /\ \A i \in 1..Len(reads) : reads[i] = 0

\* C7: when every call succeeds, a change count of N gives exactly N update
\* requests, each after one reset of the flag.
C7_NUpdatesForCountN ==
  (pc = "exit" /\ exit_status = 0)
    => (Count("Update") = num_gain_changes /\ Count("reset") = num_gain_changes)

\* C8: the poll loop is never left early when the only notifications or-ed
\* in since the reset, by callbacks that began after it, are those of
\* earlier updates.
C8_StaleNeverConfirms ==
  ~ ( /\ LeftEarly
      /\ ~late_write
      /\ delivered # {}
      /\ \A u \in delivered : u < ngc )

\* C9: before update n the pending parameters hold gain[n mod len(gain)]
\* and lna[n mod len(lna)], each list indexed with its own length.
C9_SequencerIndexing ==
  pc \in {"reset", "update", "in_update"} =>
    /\ ngc >= 1
    /\ gRdB = gRdBs[(ngc % Len(gRdBs)) + 1]
    /\ LNAstate = LNAstates[(ngc % Len(LNAstates)) + 1]

C9_Witness ==
  pc = "update" /\ ngc = 3 /\ Len(gRdBs) = 3 /\ Len(LNAstates) = 2

\* C10: an empty -g or -l text ends the program with status 1 before any
\* vendor call; past the parser both lists have a size >= 1 with every
\* element filled, so in the loop ngc mod size addresses a filled element.
C10_ListsNonEmptyAndFilled ==
  /\ ((gOpt.given /\ gOpt.text = << >>) \/ (lOpt.given /\ lOpt.text = << >>))
       => (pc = "options" \/ (pc = "exit" /\ exit_status = 1 /\ trace = << >>))
  /\ (pc \notin {"options", "exit"} \/ trace # << >>)
       => /\ pc # "wild"
          /\ ngRdBs >= 1 /\ Len(gRdBs) = ngRdBs
          /\ nLNAstates >= 1 /\ Len(LNAstates) = nLNAstates
  /\ pc \in {"set_params", "reset", "update", "in_update", "poll", "after_poll"}
       => (ngc % ngRdBs < Len(gRdBs) /\ ngc % nLNAstates < Len(LNAstates))

C10_Witness ==
  /\ pc = "exit" /\ exit_status = 1 /\ trace = << >>
  /\ lOpt.given /\ lOpt.text = << >>
  /\ gOpt.given /\ gOpt.text = <<"4", ",", "2">>

\* ------------------------------------------- properties of set-up, tear-down

\* The calls trace holds, as a set.
Called(name) == \E i \in 1..Len(trace) : trace[i] = name

\* The call with this name was made and returned success.
Succeeded(name) ==
  \E i \in 1..Len(trace) : trace[i] = name /\ i \notin failed

\* The no-callback initialization has returned success, and the device
\* layer changed a field main() had written.
ReadsBackDifferent ==
  /\ Succeeded("InitNoCallbacks")
  /\ clamp \in WrittenFields(prog, agc)

\* C11: when a written field reads back different after the no-callback
\* initialization, the streaming initialization is never called, no update
\* is requested, and the program ends with status 1.
C11_MismatchStopsStreaming ==
  ReadsBackDifferent =>
    /\ pc \in {"verify", "exit"}
    /\ ~Called("Init")
    /\ ~Called("Update")
    /\ pc = "exit" => exit_status = 1

\* The entries of trace after position i.
After(i) == SubSeq(trace, i + 1, Len(trace))

\* The position of the update request that failed, 0 when none did.
FailedUpdate ==
  IF \E i \in failed : trace[i] = "Update"
    THEN CHOOSE i \in failed : trace[i] = "Update"
    ELSE 0

\* C12: after a failed update request no further update is requested; the
\* stream is stopped, the device released and the API closed, in this order,
\* and the program ends with status 1.
C12_UpdateFailureTearsDown ==
  (pc = "exit" /\ FailedUpdate # 0) =>
    /\ exit_status = 1
    /\ SelectSeq(After(FailedUpdate),
                 LAMBDA e : e \in {"Update", "Uninit", "ReleaseDevice", "Close"})
         = <<"Uninit", "ReleaseDevice", "Close">>

\* The position of the successful sdrplay_api_SelectDevice, 0 when none.
Selected ==
  IF Succeeded("SelectDevice")
    THEN CHOOSE i \in 1..Len(trace) : trace[i] = "SelectDevice"
    ELSE 0

\* C13: tear-down is best effort.  On every path that ends after the device
\* was selected, the release of the device and the close of the API were
\* attempted, whichever tear-down call failed before them.
C13_TeardownBestEffort ==
  (pc = "exit" /\ Selected # 0) =>
    /\ \E i \in (Selected + 1)..Len(trace) : trace[i] = "ReleaseDevice"
    /\ trace[Len(trace)] = "Close"

\* The device-API lock is held after the first k calls of trace: a
\* successful lock takes it, a successful unlock gives it back.
RECURSIVE HeldAfter(_)
HeldAfter(k) ==
  IF k = 0 THEN FALSE
  ELSE IF trace[k] = "LockDeviceApi" /\ k \notin failed THEN TRUE
  ELSE IF trace[k] = "UnlockDeviceApi" /\ k \notin failed THEN FALSE
  ELSE HeldAfter(k - 1)

\* C14: every select and every release of the device is called with the
\* device-API lock held, and the API is closed with the lock held only when
\* an unlock call failed.
C14_LockAroundSelectRelease ==
  \A i \in 1..Len(trace) :
    /\ trace[i] \in {"SelectDevice", "ReleaseDevice"} => HeldAfter(i - 1)
    /\ (trace[i] = "Close" /\ HeldAfter(i - 1))
         => \E j \in failed : j < i /\ trace[j] = "UnlockDeviceApi"

\* Every option text given is one the parser of the program accepts.
ArgsOk ==
  IF prog = "recorder"
    THEN /\ gOpt.given => (gOpt.text = <<"A", "G", "C">> \/ ScanInt(gOpt.text, 1).ok)
         /\ lOpt.given => ScanInt(lOpt.text, 1).ok
    ELSE /\ gOpt.given => \A r \in ParseList(gOpt.text) : r.ok
         /\ lOpt.given => \A r \in ParseList(lOpt.text) : r.ok

\* The parser reaches a -h before any option it rejects.
HelpReached == hOpt = "first" \/ (hOpt = "last" /\ ArgsOk)

\* The calls of the vendor library, as opposed to those on the output file.
IsVendorCall(name) == name \notin {"open(output_file)", "close(output_file)"}

\* The readback verification passed and no call of the vendor library failed.
DeviceRunClean ==
  /\ init_ok = 1
  /\ \A i \in failed : ~IsVendorCall(trace[i])

\* C15 as stated: the exit status is 0 exactly when help was requested or
\* every vendor-library call and the readback verification succeeded, and 1
\* otherwise.
C15_ExitStatusAsStated ==
  pc = "exit" =>
    /\ exit_status \in {0, 1}
    /\ exit_status = 0 <=> (HelpReached \/ DeviceRunClean)

\* C15, amended: the exit status is 0 exactly when help was requested or
\* every vendor-library call, the readback verification and the recorder's
\* open of its output file succeeded, and 1 otherwise; neither a timeout
\* warning nor a sequence jump enters the condition.
C15_ExitStatus ==
  pc = "exit" =>
    /\ exit_status \in {0, 1}
    /\ exit_status = 0 <=> (HelpReached \/ (init_ok = 1 /\ failed = {}))

\* A run that logged a timeout warning and a sequence jump ends with status 0.
C15_Witness ==
  /\ pc = "exit"
  /\ exit_status = 0
  /\ TimeoutLogged
  /\ jump_logged
  /\ Called("Update")

\* The descriptor main() holds is in single tuner mode on tuner A with
\* dual-tuner sample frequency 0.
ForcedSingleTuner ==
  /\ device.rspDuoMode = {"Single_Tuner"}
  /\ device.tuner = "Tuner_A"
  /\ device.rspDuoSampleFreq = 0

\* C18: for an RSPduo, sdrplay_api_SelectDevice is called only when the
\* single tuner bit of the enumerated device is set, and with the descriptor
\* forced to single tuner mode, tuner A, sample frequency 0; when the bit is
\* not set the program unlocks, closes the API and exits with status 1 and
\* never calls select.
C18_SelectOnlyForced ==
  hw.hwVer = "RSPduo" =>
    /\ (pc = "select" \/ Called("SelectDevice")) => ~SingleTunerMissing(hw)
    /\ pc = "select" => ForcedSingleTuner
    /\ (SingleTunerMissing(hw) /\ Called("GetDevices")) =>
         /\ pc = "exit"
         /\ exit_status = 1
         /\ After(Len(trace) - 2) = <<"UnlockDeviceApi", "Close">>

\* An RSPduo enumerated in all modes on both tuners has been selected.
C18_Witness ==
  /\ hw = RspDuoFree
  /\ pc = "unlock"
  /\ Succeeded("SelectDevice")
  /\ ForcedSingleTuner

\* ------------------------------------------- properties of the sample sequence

\* firstSampleNum + numSamples of the buffer b, in unsigned int arithmetic.
EndOf(b) == Add32(b.firstSampleNum, b.numSamples)

\* C16: a callback other than the first of the stream logs the sequence jump
\* warning exactly when its firstSampleNum is not the firstSampleNum of the
\* callback before it plus that one's numSamples, modulo 2^32; after every
\* callback next_sample_num is firstSampleNum + numSamples modulo 2^32.
C16_JumpWarningExact ==
  [][ CallbackOr =>
        /\ next_sample_num' = EndOf(last_buf')
        /\ had_callback =>
             (jump_logged' <=> last_buf'.firstSampleNum # EndOf(last_buf)) ]_vars

RECURSIVE Interleaved(_, _)
Interleaved(xi, xq) ==
  IF xi = << >> THEN << >>
  ELSE << Head(xi), Head(xq) >> \o Interleaved(Tail(xi), Tail(xq))

\* The interleaved samples of the buffers of a sequence, one after the other.
RECURSIVE Recording(_)
Recording(buffers) ==
  IF buffers = << >> THEN << >>
  ELSE Interleaved(Head(buffers).xi, Head(buffers).xq) \o Recording(Tail(buffers))

\* -o was given (not in -T mode) and the file was opened.
OutputConfigured ==
  /\ prog = "recorder"
  /\ oOpt /\ ~tOpt
  /\ Succeeded("open(output_file)")

\* C19: when an output file is configured and no write has failed or been
\* incomplete, the file holds the interleaved samples of the callbacks so
\* far, in the order of the callbacks, and nothing else.
C19_FileIsInterleavedSamples ==
  (OutputConfigured /\ \A i \in DOMAIN writes : writes[i] \notin {"failed", "incomplete"})
    => file = Recording(bufs)

\* The write of the latest callback failed or was incomplete.
WriteFellShort ==
  writes # << >> /\ writes[Len(writes)] \in {"failed", "incomplete"}

\* The range r includes every sample of the array x.
Includes(lo, hi, x) == \A i \in DOMAIN x : lo <= x[i] /\ x[i] <= hi

\* C20: a callback whose write fails or is incomplete leaves the output
\* descriptor, the streaming state and main() where they were, and has
\* counted its samples, set next_sample_num and widened the ranges; a
\* callback that comes after such a write still attempts its own write.
C20_WriteFailureGoesOn ==
  [][ /\ (RecordCallback /\ WriteFellShort') =>
           /\ output_fd' = output_fd
           /\ streaming' /\ pc' = pc /\ exit_status' = exit_status
           /\ total_samples' = total_samples + last_buf'.numSamples
           /\ next_sample_num' = EndOf(last_buf')
           /\ Includes(ranges'.imin, ranges'.imax, last_buf'.xi)
           /\ Includes(ranges'.qmin, ranges'.qmax, last_buf'.xq)
           /\ ranges'.imin <= ranges.imin /\ ranges.imax <= ranges'.imax
           /\ ranges'.qmin <= ranges.qmin /\ ranges.qmax <= ranges'.qmax
      /\ (RecordCallback /\ \E i \in DOMAIN writes :
                               writes[i] \in {"failed", "incomplete"})
           => writes'[Len(writes')] # "none" ]_vars

\* A callback has written in full after the write of the one before it failed.
C20_Witness ==
  /\ Len(writes) = 2
  /\ writes[1] = "failed"
  /\ writes[2] = "full"
  /\ streaming
  /\ file = Interleaved(bufs[2].xi, bufs[2].xq)

\* ------------------------------------------------- properties of termination

\* C21: a poll loop makes at most UpdateTimeout reads of the flag whatever
\* the callbacks do, and main() reaches its end: the normal tear-down after
\* the last change, or the exit on the first call that failed.
C21_LoopsEndAndMainExits ==
  /\ [](elapsed <= UpdateTimeout /\ Len(reads) <= UpdateTimeout)
  /\ <>[](pc = "exit" /\ exit_status \in {0, 1} /\ ~streaming)

\* The program has ended normally after a poll loop that ran to its bound.
C21_Witness ==
  /\ pc = "exit"
  /\ exit_status = 0
  /\ Len(reads) = UpdateTimeout
  /\ Called("Update")

\* ---------------------------------------------------- properties of the flag

\* C22: with callbacks running one at a time, the flag goes from not 0 to 0
\* only by the reset of main() (line 443), and a callback that carries
\* grChanged # 0 leaves the flag not 0.
C22_OnlyResetClears ==
  [][ /\ (gain_reduction_changed # 0 /\ gain_reduction_changed' = 0)
           => (pc = "reset" /\ pc' = "update" /\ cb_pc' = cb_pc)
      /\ (cb_pc = "or" /\ cb_pc' = "idle" /\ cb_grChanged # 0)
           => gain_reduction_changed' # 0 ]_vars

\* The flag is set and main() is about to reset it for a second time, after
\* a callback that carried grChanged = 0 has returned with the flag set.
C22_Witness ==
  /\ pc = "reset"
  /\ gain_reduction_changed # 0
  /\ Count("reset") >= 1
  /\ cb_pc = "idle"
  /\ pendingGr = {}

\* C23: whenever the flag is not 0 after a reset of main() and before the
\* next one, a callback that carried grChanged # 0 began after that reset; a
\* callback that read the flag before the reset and writes after it does
\* not bring a value from before the reset back.
C23_RaceIsBenign ==
  (Count("reset") >= 1 /\ gain_reduction_changed # 0) => delivered # {}

\* --------------------------------------------- properties of the API session

\* The calls that operate on the device API or on a device.
DeviceOps ==
  {"LockDeviceApi", "GetDevices", "SelectDevice", "UnlockDeviceApi",
   "DebugEnable", "GetDeviceParams", "InitNoCallbacks", "Init", "Update",
   "Uninit", "ReleaseDevice"}

\* sdrplay_api_Open failed, sdrplay_api_ApiVersion failed, or the version
\* it reported is not the expected one.
SessionRefused ==
  \/ 1 \in failed
  \/ 2 \in failed
  \/ (Len(trace) >= 2 /\ api_ver # ExpectedVersion)

\* C24: a device operation is made only after sdrplay_api_Open and
\* sdrplay_api_ApiVersion returned success and the version reported was the
\* expected one; when the open fails, the version query fails or the version
\* differs, the program exits with status 1 and has made none.
C24_VersionBeforeDevice ==
  /\ \A i \in 1..Len(trace) :
       trace[i] \in DeviceOps =>
         /\ i > 2
         /\ trace[1] = "Open" /\ 1 \notin failed
         /\ trace[2] = "ApiVersion" /\ 2 \notin failed
         /\ api_ver = ExpectedVersion
  /\ SessionRefused =>
       /\ pc = "exit"
       /\ exit_status = 1
       /\ \A i \in 1..Len(trace) : trace[i] \notin DeviceOps

\* The library reported another version: the API was closed at once.
C24_Witness ==
  /\ api_ver # ExpectedVersion
  /\ pc = "exit"
  /\ exit_status = 1
  /\ trace = <<"Open", "ApiVersion", "Close">>
  /\ failed = {}

\* C25: sdrplay_api_Close is never called twice and no call follows it; a
\* process that exits after a successful sdrplay_api_Open has called it.
C25_CloseOnceAndLast ==
  /\ Count("Close") <= 1
  /\ \A i \in 1..Len(trace) : trace[i] = "Close" => i = Len(trace)
  /\ (pc = "exit" /\ Succeeded("Open")) => Count("Close") = 1

\* A call failed while the stream was running; the API was closed once.
C25_Witness ==
  /\ pc = "exit"
  /\ exit_status = 1
  /\ Succeeded("Open")
  /\ Succeeded("Init")
  /\ failed # {}
  /\ Count("Close") = 1

\* ------------------------------------------ properties of the verification

\* C26: with AGC disabled and a device layer that leaves every written
\* field as written, the readback verification of either utility passes,
\* for an RSPduo and for every other device, and the program goes on
\* towards streaming: the two utilities decide alike.
C26_SameVerdict ==
  (clamp = "none" /\ agc = "AGC_DISABLE" /\ init_ok # -1) =>
    /\ init_ok = 1
    /\ (pc = "exit" /\ failed = {}) => Called("Init")

\* -------------------------------------------- properties of the dropped count

\* a + b modulo 2^32 of two unsigned ints.
PlusMod(a, b) ==
  LET low == a[2] + b[2]
  IN  << (a[1] + b[1] + low \div Half) % Half, low % Half >>

\* C27: the count the recorder reports for a discontinuity is
\* (firstSampleNum - next_sample_num) modulo 2^32, that is, the expected
\* sample number plus the count is the firstSampleNum of the buffer, also
\* when firstSampleNum is below next_sample_num after a wrap.
C27_DroppedCount ==
  [][ (RecordCallback /\ jump_logged') =>
        PlusMod(next_sample_num, dropped_samples') = last_buf'.firstSampleNum
    ]_vars

\* C28: every index the recorder's callback stores into samples[] is below
\* the 4096 elements of the array, and the byte count it passes to write()
\* is at most the size of the array.
C28_InterleaveBufferBounds ==
  /\ samples_use.top < SamplesLen
  /\ samples_use.count <= SamplesLen * SizeofShort

\* ------------------------------------------ properties of the output descriptor

\* The streaming sdrplay_api_Init was followed by an sdrplay_api_Uninit
\* that returned success.
StreamStopped ==
  \E i, j \in 1..Len(trace) :
    i < j /\ trace[i] = "Init" /\ trace[j] = "Uninit" /\ j \notin failed

\* The output file was closed once, and before sdrplay_api_ReleaseDevice.
ClosedOnceBeforeRelease ==
  /\ Count("close(output_file)") = 1
  /\ \E i, j \in 1..Len(trace) :
       i < j /\ trace[i] = "close(output_file)" /\ trace[j] = "ReleaseDevice"

\* C29: the recorder closes its output descriptor only after the streaming
\* sdrplay_api_Uninit returned success; once it is closed no callback
\* writes; and a run that opened the output file and ends normally has
\* closed it exactly once, before the device was released.
C29_CloseAfterUninit ==
  [][ /\ fd_closed' => (~streaming' /\ StreamStopped')
      /\ fd_closed => (file' = file /\ writes' = writes)
      /\ (pc' = "exit" /\ exit_status' = 0 /\ Succeeded("open(output_file)")')
           => ClosedOnceBeforeRelease' ]_vars

====
